---- MODULE Spec2Model ----
(***************************************************************************)
(* ClerkOAuthProvider (src/server/oauth/providers/clerk.ts) and the        *)
(* get-clerk-user-profile tool of the Clerk example server                 *)
(* (examples/server/oauth/clerk/src/server.ts).                            *)
(*                                                                         *)
(* Strings that the code only compares or concatenates are TLA+ strings.   *)
(* A bearer token is a sequence of "characters"; a character is either the *)
(* dot "." or a run of base64url characters that is kept as one symbol.    *)
(* JavaScript's undefined is the string U for string-valued claims and the *)
(* record NoList for list-valued claims.                                   *)
(*                                                                         *)
(* jwtVerify and createRemoteJWKSet come from the jose package; they are   *)
(* modelled by the behaviour jose documents for them (compact-JWS          *)
(* structure check, key lookup by kid in a remote key set with a shared    *)
(* pending fetch, cooldown and cache age, signature check, then the iss    *)
(* and exp claim checks).                                                  *)
(***************************************************************************)
EXTENDS Integers, Sequences, FiniteSets, TLC

\* Number of verifyToken invocations that may be in flight together.
NCallers == 2
\* Last instant of the clock.
MaxNow == 2

Callers == 1..NCallers

U == "undefined"
Dot == "."

NoList == [def |-> FALSE, v |-> <<>>]
List(s) == [def |-> TRUE, v |-> s]

\* A claim set with every claim missing.
NoClaims ==
  [iss |-> U, exp |-> -1, sub |-> U, email |-> U, email_verified |-> U,
   first_name |-> U, last_name |-> U, image_url |-> U, picture |-> U,
   org_id |-> U, org_role |-> U, org_permissions |-> NoList,
   roles |-> NoList, permissions |-> NoList]

(***************************************************************************)
(* Token text.                                                             *)
(***************************************************************************)

\* token.split(".")
RECURSIVE Split(_)
Split(s) ==
  IF s = <<>> THEN << <<>> >>
  ELSE LET rest == Split(Tail(s)) IN
       IF Head(s) = Dot THEN << <<>> >> \o rest
       ELSE << <<Head(s)>> \o Head(rest) >> \o Tail(rest)

\* Buffer.from(segment, "base64url").toString("utf8"): never throws; a
\* segment that is not the encoding of a known text decodes to garbage.
B64UrlDecode(seg) ==
  IF seg = <<>> THEN ""
  ELSE IF Len(seg) # 1 THEN "\\uFFFD"
  ELSE CASE seg[1] = "eyJraWQiOiJrMSJ9" -> "{\"alg\":\"RS256\",\"kid\":\"k1\"}"
         [] seg[1] = "eyJraWQiOiJrMiJ9" -> "{\"alg\":\"RS256\",\"kid\":\"k2\"}"
         [] seg[1] = "eyJvayJ9"     -> "{\"iss\":\"https://a.dev\",\"exp\":2,\"sub\":\"user_1\"}"
         [] seg[1] = "eyJub3N1YiJ9" -> "{\"iss\":\"https://a.dev\",\"exp\":2}"
         [] seg[1] = "eyJodHRwIn0"  -> "{\"iss\":\"http://a.dev\",\"exp\":2,\"sub\":\"user_1\"}"
         [] seg[1] = "eyJzbGFzaCJ9" -> "{\"iss\":\"https://a.dev/\",\"exp\":2,\"sub\":\"user_1\"}"
         [] seg[1] = "eyJvcmcifQ"   -> "{\"sub\":\"user_2\",\"org_role\":\"admin\"}"
         [] seg[1] = "bnVsbA"       -> "null"
         [] seg[1] = "e2JhZA"       -> "{bad"
         [] OTHER -> "\\uFFFD"

NotJson == [ok |-> FALSE, object |-> FALSE, kid |-> U, claims |-> NoClaims]
JsonObject(kid, claims) == [ok |-> TRUE, object |-> TRUE, kid |-> kid, claims |-> claims]

\* JSON.parse(text): ok is FALSE where JSON.parse throws a SyntaxError.
JSONParse(text) ==
  CASE text = "{\"alg\":\"RS256\",\"kid\":\"k1\"}" -> JsonObject("k1", NoClaims)
    [] text = "{\"alg\":\"RS256\",\"kid\":\"k2\"}" -> JsonObject("k2", NoClaims)
    [] text = "{\"iss\":\"https://a.dev\",\"exp\":2,\"sub\":\"user_1\"}" ->
         JsonObject(U, [NoClaims EXCEPT !.iss = "https://a.dev", !.exp = 2, !.sub = "user_1"])
    [] text = "{\"iss\":\"https://a.dev\",\"exp\":2}" ->
         JsonObject(U, [NoClaims EXCEPT !.iss = "https://a.dev", !.exp = 2])
    [] text = "{\"iss\":\"http://a.dev\",\"exp\":2,\"sub\":\"user_1\"}" ->
         JsonObject(U, [NoClaims EXCEPT !.iss = "http://a.dev", !.exp = 2, !.sub = "user_1"])
    [] text = "{\"iss\":\"https://a.dev/\",\"exp\":2,\"sub\":\"user_1\"}" ->
         JsonObject(U, [NoClaims EXCEPT !.iss = "https://a.dev/", !.exp = 2, !.sub = "user_1"])
    [] text = "{\"sub\":\"user_2\",\"org_role\":\"admin\"}" ->
         JsonObject(U, [NoClaims EXCEPT !.sub = "user_2", !.org_role = "admin"])
    [] text = "null" -> [ok |-> TRUE, object |-> FALSE, kid |-> U, claims |-> NoClaims]
    [] OTHER -> NotJson

\* The key and the signing input (header segment, payload segment) each
\* signature segment was made with.
Signed(sig) ==
  CASE sig = "c2lnMQ" -> [kid |-> "k1", h |-> "eyJraWQiOiJrMSJ9", p |-> "eyJvayJ9"]
    [] sig = "c2lnMg" -> [kid |-> "k2", h |-> "eyJraWQiOiJrMiJ9", p |-> "eyJvayJ9"]
    [] sig = "c2lnMw" -> [kid |-> "k1", h |-> "eyJraWQiOiJrMSJ9", p |-> "eyJub3N1YiJ9"]
    [] sig = "c2lnNA" -> [kid |-> "k1", h |-> "eyJraWQiOiJrMSJ9", p |-> "eyJodHRwIn0"]
    [] sig = "c2lnNQ" -> [kid |-> "k1", h |-> "eyJraWQiOiJrMSJ9", p |-> "eyJzbGFzaCJ9"]
    [] sig = "c2lnNg" -> [kid |-> "k1", h |-> "eyJraWQiOiJrMSJ9", p |-> "e2JhZA"]
    [] OTHER -> [kid |-> U, h |-> U, p |-> U]

\* The bearer tokens presented to the provider.
TokGood     == <<"eyJraWQiOiJrMSJ9", Dot, "eyJvayJ9", Dot, "c2lnMQ">>
TokRotated  == <<"eyJraWQiOiJrMiJ9", Dot, "eyJvayJ9", Dot, "c2lnMg">>
TokTampered == <<"eyJraWQiOiJrMSJ9", Dot, "eyJvcmcifQ", Dot, "c2lnMQ">>
TokNoSub    == <<"eyJraWQiOiJrMSJ9", Dot, "eyJub3N1YiJ9", Dot, "c2lnMw">>
TokHttp     == <<"eyJraWQiOiJrMSJ9", Dot, "eyJodHRwIn0", Dot, "c2lnNA">>
TokSlash    == <<"eyJraWQiOiJrMSJ9", Dot, "eyJzbGFzaCJ9", Dot, "c2lnNQ">>
TokBadBody  == <<"eyJraWQiOiJrMSJ9", Dot, "e2JhZA", Dot, "c2lnNg">>
TokNull     == <<"eyJraWQiOiJrMSJ9", Dot, "bnVsbA", Dot, "c2lnMQ">>
TokBadHead  == <<"e2JhZA", Dot, "eyJvayJ9", Dot, "c2lnMQ">>
TokOpaque   == <<"oat_", "abc">>
TokTwo      == <<"eyJraWQiOiJrMSJ9", Dot, "eyJvayJ9">>
TokFour     == <<"eyJraWQiOiJrMSJ9", Dot, "eyJvayJ9", Dot, "c2lnMQ", Dot, "eA">>

Tokens ==
  {TokGood, TokRotated, TokTampered, TokNoSub, TokHttp, TokSlash, TokBadBody,
   TokNull, TokBadHead, TokOpaque, TokTwo, TokFour}

\* The tokens presented to a provider that verifies signatures: one of each
\* kind of defect.
TokensToVerify == Tokens \ {TokNull, TokTwo, TokFour}

(***************************************************************************)
(* getUserInfo (a pure function of the payload).                           *)
(***************************************************************************)

\* JavaScript truthiness of a string-valued claim.
Truthy(s) == s # U /\ s # ""

\* a || b on string-valued claims.
OrElse(a, b) == IF Truthy(a) THEN a ELSE b

\* (list as string[]) || []  : every array, the empty one too, is truthy.
ListOrEmpty(l) == IF l.def THEN l ELSE List(<<>>)

\* firstName || lastName ? [firstName, lastName].filter(Boolean).join(" ") : undefined
FullName(firstName, lastName) ==
  IF Truthy(firstName) \/ Truthy(lastName)
  THEN IF Truthy(firstName) /\ Truthy(lastName) THEN firstName \o " " \o lastName
       ELSE IF Truthy(firstName) THEN firstName ELSE lastName
  ELSE U

OrgPermissionsOf(payload) == ListOrEmpty(payload.org_permissions)

RolesOfNoDefault(payload) ==
  IF Truthy(payload.org_role) THEN List(<<payload.org_role>>) ELSE payload.roles

RolesOf(payload) ==
  IF Truthy(payload.org_role) THEN List(<<payload.org_role>>)
  ELSE ListOrEmpty(payload.roles)

PermissionsOfGenericFirst(payload) ==
  IF payload.permissions.def /\ Len(payload.permissions.v) > 0
  THEN payload.permissions
  ELSE OrgPermissionsOf(payload)

PermissionsOf(payload) ==
  IF Len(OrgPermissionsOf(payload).v) > 0 THEN OrgPermissionsOf(payload)
  ELSE ListOrEmpty(payload.permissions)

GetUserInfo(payload) ==
  [userId |-> payload.sub,
   email |-> payload.email,
   name |-> FullName(payload.first_name, payload.last_name),
   picture |-> OrElse(payload.image_url, payload.picture),
   roles |-> RolesOf(payload),
   permissions |-> PermissionsOf(payload),
   org_id |-> payload.org_id,
   org_role |-> payload.org_role,
   org_permissions |-> OrgPermissionsOf(payload),
   email_verified |-> payload.email_verified,
   first_name |-> payload.first_name,
   last_name |-> payload.last_name]

NoUser == GetUserInfo(NoClaims)

(***************************************************************************)
(* State.                                                                  *)
(***************************************************************************)
VARIABLES
  config,         \* ClerkOAuthConfig: domain, verifyJwt ("true", "false" or U)
  issuer,         \* this.issuer
  jwks,           \* this.jwks: "null" or "RemoteJWKSet"
  jwksCreated,    \* calls of createRemoteJWKSet made so far
  local,          \* the key set the RemoteJWKSet holds after a successful fetch
  jwksTimestamp,  \* instant of the last successful fetch, -1 before it
  pendingFetch,   \* a fetch of jwks.json is in flight
  fetchCount,     \* fetches of jwks.json started so far
  fetchesSettled, \* fetches of jwks.json that have ended
  now,            \* the clock
  calls,          \* the verifyToken invocations
  warnings,       \* lines written by console.warn
  rawClaims,      \* the argument of a direct getUserInfo call
  userInfo,       \* the result of that call
  env,            \* process.env: MCP_USE_OAUTH_CLERK_DOMAIN, CLERK_SECRET_KEY
  ctx,            \* ctx.auth of the tool call: accessToken, user.userId
  args,           \* the arguments the tool caller supplied
  hpc,            \* where the get-clerk-user-profile handler stands
  requests,       \* the fetch calls the handler has made
  res,            \* how the awaited fetch settled
  result          \* what the handler returned

vars == <<config, issuer, jwks, jwksCreated, local, jwksTimestamp, pendingFetch,
          fetchCount, fetchesSettled, now, calls, warnings, rawClaims, userInfo,
          env, ctx, args, hpc, requests, res, result>>

providerVars == <<config, issuer>>
jwksVars == <<jwks, jwksCreated, local, jwksTimestamp, pendingFetch, fetchCount,
              fetchesSettled>>
normalizerVars == <<rawClaims, userInfo>>
handlerVars == <<env, ctx, args, hpc, requests, res, result>>

NotCalled == [pc |-> "notCalled", errType |-> U, value |-> NoUser]

NoKeys == [loaded |-> FALSE, keys |-> {}]

Idle ==
  [pc |-> "idle", token |-> <<>>, mode |-> U, kid |-> U, checks |-> {},
   errType |-> U, err |-> U, payload |-> NotJson, user |-> NoUser]

ConstructorAddsSlash(cfg) ==
  /\ config = cfg
  /\ issuer = "https://" \o cfg.domain \o "/"
  /\ jwks = "null"

\* this.issuer = `https://${config.domain}`
Constructor(cfg) ==
  /\ config = cfg
  /\ issuer = "https://" \o cfg.domain
  /\ jwks = "null"

Configs ==
  [domain : {"a.dev"}, verifyJwt : {U, "true", "false"}]
    \cup {[domain |-> "a.dev/", verifyJwt |-> "true"]}

ProviderInit(cfgs) ==
  /\ \E cfg \in cfgs : Constructor(cfg)
  /\ jwksCreated = 0
  /\ local = NoKeys
  /\ jwksTimestamp = -1
  /\ pendingFetch = FALSE
  /\ fetchCount = 0
  /\ fetchesSettled = 0
  /\ now = 0
  /\ calls = [c \in Callers |-> Idle]
  /\ warnings = 0

NoResult == [kind |-> "none", message |-> U, profile |-> NoClaims]

\* No fetch has settled.
NoResponse == [kind |-> "none", status |-> [code |-> 0, text |-> U], valid |-> FALSE]

HandlerIdle ==
  /\ env = [domain |-> U, secretKey |-> <<>>]
  /\ ctx = [accessToken |-> <<>>, userId |-> U]
  /\ args = U
  /\ hpc = "notCalled"
  /\ requests = <<>>
  /\ res = NoResponse
  /\ result = NoResult

Init ==
  /\ ProviderInit(Configs)
  /\ rawClaims = NoClaims
  /\ userInfo = NotCalled
  /\ HandlerIdle

(***************************************************************************)
(* verifyToken.                                                            *)
(***************************************************************************)

VerifyDisabledWhenFalsy(cfg) == cfg.verifyJwt # "true"

\* this.config.verifyJwt === false
VerifyDisabled(cfg) == cfg.verifyJwt = "false"

Returned(call, payload) ==
  [call EXCEPT !.pc = "returned", !.payload = payload, !.kid = U]

Threw(call, errType, err) ==
  [call EXCEPT !.pc = "threw", !.errType = errType, !.err = err, !.kid = U]

DecodeAnySegmentCount(call, token) ==
  LET parts == Split(token)
      payload == JSONParse(B64UrlDecode(IF Len(parts) >= 2 THEN parts[2] ELSE <<>>))
  IN IF ~payload.ok THEN Threw(call, "SyntaxError", "Unexpected token in JSON")
     ELSE Returned(call, payload)

\* The verifyJwt === false branch after its two warnings: split, length
\* check, JSON.parse of the decoded second segment, return { payload }.
DecodeUnverified(call, token) ==
  LET parts == Split(token) IN
  IF Len(parts) # 3 THEN Threw(call, "Error", "Invalid JWT format")
  ELSE LET payload == JSONParse(B64UrlDecode(parts[2])) IN
       IF ~payload.ok THEN Threw(call, "SyntaxError", "Unexpected token in JSON")
       ELSE Returned(call, payload)

RejectedFallsBackToDecode(call, cause) == DecodeUnverified(call, call.token)

\* catch (error) { throw new Error(`Clerk JWT verification failed: ${error}`) }
Rejected(call, cause) ==
  Threw(call, "Error", "Clerk JWT verification failed: " \o cause)

WarnDisabledOnce == warnings' = IF warnings = 0 THEN 2 ELSE warnings

\* The two console.warn lines written on every entry of the disabled branch.
WarnDisabled == warnings' = warnings + 2

MayStart(c) ==
  /\ calls[c].pc = "idle"
  /\ \A d \in Callers : d < c => calls[d].pc # "idle"

VerifyTokenUnverified(c, token) ==
  /\ MayStart(c)
  /\ VerifyDisabled(config)
  /\ WarnDisabled
  /\ calls' = [calls EXCEPT ![c] =
       DecodeUnverified([calls[c] EXCEPT !.token = token, !.mode = "decode"], token)]
  /\ UNCHANGED <<providerVars, jwksVars, now, normalizerVars, handlerVars>>

\* jose: a compact JWS has three segments and a protected header that is a
\* JSON object; checked before any key is asked for.
CompactHeader(token) ==
  LET parts == Split(token) IN
  IF Len(parts) # 3 THEN NotJson
  ELSE LET h == JSONParse(B64UrlDecode(parts[1])) IN
       IF h.ok /\ h.object /\ h.kid # U THEN h ELSE NotJson

\* jose RemoteJWKSet.coolingDown() and fresh(): the cooldown lasts one
\* instant and the cache two.
CoolingDown == jwksTimestamp >= 0 /\ now < jwksTimestamp + 1
Fresh == jwksTimestamp >= 0 /\ now < jwksTimestamp + 2

\* jose RemoteJWKSet.reload(): this._pendingFetch ||= fetchJwks(...)
JoinOrStartFetch ==
  /\ pendingFetch' = TRUE
  /\ fetchCount' = IF pendingFetch THEN fetchCount ELSE fetchCount + 1
  /\ UNCHANGED <<local, jwksTimestamp>>

GetJWKSAlwaysCreates ==
  /\ jwks' = "RemoteJWKSet"
  /\ jwksCreated' = jwksCreated + 1

\* getJWKS(): if (!this.jwks) this.jwks = createRemoteJWKSet(...)
GetJWKS ==
  /\ jwks' = "RemoteJWKSet"
  /\ jwksCreated' = IF jwks = "null" THEN jwksCreated + 1 ELSE jwksCreated

\* verifyToken up to the first suspension of jwtVerify(token, this.getJWKS(),
\* { issuer }): the structure check and the key lookup of the RemoteJWKSet.
VerifyTokenStart(c, token) ==
  /\ MayStart(c)
  /\ ~VerifyDisabled(config)
  /\ GetJWKS
  /\ LET call == [calls[c] EXCEPT !.token = token, !.mode = "verify"]
         h == CompactHeader(token)
     IN IF ~h.ok
        THEN /\ calls' = [calls EXCEPT ![c] = Rejected(call, "JWSInvalid")]
             /\ UNCHANGED <<local, jwksTimestamp, pendingFetch, fetchCount>>
        ELSE IF ~local.loaded \/ ~Fresh
        THEN /\ JoinOrStartFetch
             /\ calls' = [calls EXCEPT ![c] =
                  [call EXCEPT !.pc = "awaitFetch", !.kid = h.kid]]
        ELSE IF h.kid \in local.keys
        THEN /\ calls' = [calls EXCEPT ![c] =
                  [call EXCEPT !.pc = "verifying", !.kid = h.kid]]
             /\ UNCHANGED <<local, jwksTimestamp, pendingFetch, fetchCount>>
        ELSE IF CoolingDown
        THEN /\ calls' = [calls EXCEPT ![c] = Rejected(call, "JWKSNoMatchingKey")]
             /\ UNCHANGED <<local, jwksTimestamp, pendingFetch, fetchCount>>
        ELSE /\ JoinOrStartFetch
             /\ calls' = [calls EXCEPT ![c] =
                  [call EXCEPT !.pc = "awaitFetch", !.kid = h.kid]]
  /\ UNCHANGED <<providerVars, fetchesSettled, now, warnings, normalizerVars, handlerVars>>

\* What the jwks.json request can end with.
FetchFailures == {"JWKSTimeout", "TypeError: fetch failed"}
KeySets == {{"k1"}, {"k1", "k2"}}

\* The pending fetch settles; every invocation awaiting it resumes with its
\* outcome: the key set is stored and searched for the token's kid, or the
\* fetch error is rethrown.
FetchSucceeds(keys) ==
  /\ pendingFetch
  /\ pendingFetch' = FALSE
  /\ fetchesSettled' = fetchesSettled + 1
  /\ local' = [loaded |-> TRUE, keys |-> keys]
  /\ jwksTimestamp' = now
  /\ calls' = [c \in Callers |->
       IF calls[c].pc # "awaitFetch" THEN calls[c]
       ELSE IF calls[c].kid \in keys
            THEN [calls[c] EXCEPT !.pc = "verifying"]
            ELSE Rejected(calls[c], "JWKSNoMatchingKey")]
  /\ UNCHANGED <<providerVars, jwks, jwksCreated, fetchCount, now, warnings,
                 normalizerVars, handlerVars>>

FetchFails(why) ==
  /\ pendingFetch
  /\ pendingFetch' = FALSE
  /\ fetchesSettled' = fetchesSettled + 1
  /\ calls' = [c \in Callers |->
       IF calls[c].pc # "awaitFetch" THEN calls[c] ELSE Rejected(calls[c], why)]
  /\ UNCHANGED <<providerVars, jwks, jwksCreated, local, jwksTimestamp, fetchCount,
                 now, warnings, normalizerVars, handlerVars>>

\* jose: the signature is checked with the key of the token's kid over the
\* header and payload segments as received.
SignatureValid(token, kid) ==
  LET parts == Split(token) IN
  /\ Len(parts[3]) = 1 /\ Len(parts[1]) = 1 /\ Len(parts[2]) = 1
  /\ Signed(parts[3][1]) = [kid |-> kid, h |-> parts[1][1], p |-> parts[2][1]]

\* jose: the iss claim is the string given as the issuer option.
IssuerMatches(iss, expected) == iss = expected

\* jose: exp, when present, must be later than the current time.
Expired(exp, t) == exp # -1 /\ exp <= t

\* jwtVerify after the key is found: signature, payload, iss, exp.
JwtVerifyFinish(call, at) ==
  LET parts == Split(call.token)
      payload == JSONParse(B64UrlDecode(parts[2]))
  IN IF ~SignatureValid(call.token, call.kid)
     THEN Rejected(call, "JWSSignatureVerificationFailed")
     ELSE IF ~payload.ok \/ ~payload.object
     THEN Rejected([call EXCEPT !.checks = {"sig"}], "JWTInvalid")
     ELSE IF payload.claims.iss = U
     THEN Rejected([call EXCEPT !.checks = {"sig"}],
                   "JWTClaimValidationFailed: missing required \"iss\" claim")
     ELSE IF ~IssuerMatches(payload.claims.iss, issuer)
     THEN Rejected([call EXCEPT !.checks = {"sig", "iss"}],
                   "JWTClaimValidationFailed: unexpected \"iss\" claim value")
     ELSE IF Expired(payload.claims.exp, at)
     THEN Rejected([call EXCEPT !.checks = {"sig", "iss", "exp"}], "JWTExpired")
     ELSE Returned([call EXCEPT !.checks = {"sig", "iss", "exp"}], payload)

VerifyTokenFinish(c) ==
  /\ calls[c].pc = "verifying"
  /\ calls' = [calls EXCEPT ![c] = JwtVerifyFinish(calls[c], now)]
  /\ UNCHANGED <<providerVars, jwksVars, now, warnings, normalizerVars, handlerVars>>

\* The caller passes the payload of a successful verifyToken to getUserInfo;
\* reading a property of null throws a TypeError.
Normalize(c) ==
  /\ calls[c].pc = "returned"
  /\ calls' = [calls EXCEPT ![c] =
       IF calls[c].payload.object
       THEN [calls[c] EXCEPT !.pc = "normalized",
                             !.user = GetUserInfo(calls[c].payload.claims)]
       ELSE [calls[c] EXCEPT !.pc = "normalizeThrew", !.errType = "TypeError"]]
  /\ UNCHANGED <<providerVars, jwksVars, now, warnings, normalizerVars, handlerVars>>

Tick ==
  /\ now < MaxNow
  /\ now' = now + 1
  /\ UNCHANGED <<providerVars, jwksVars, calls, warnings, normalizerVars, handlerVars>>

Next ==
  \/ \E c \in Callers, token \in Tokens : VerifyTokenUnverified(c, token)
  \/ \E c \in Callers, token \in TokensToVerify : VerifyTokenStart(c, token)
  \/ \E keys \in KeySets : FetchSucceeds(keys)
  \/ \E why \in FetchFailures : FetchFails(why)
  \/ \E c \in Callers : VerifyTokenFinish(c)
  \/ \E c \in Callers : Normalize(c)
  \/ Tick

Spec == Init /\ [][Next]_vars

(***************************************************************************)
(* What is known of the presented tokens, independently of the verifier.   *)
(***************************************************************************)
Finished(call) == call.pc \in {"returned", "threw", "normalized", "normalizeThrew"}
Succeeded(call) == call.pc \in {"returned", "normalized", "normalizeThrew"}
Failed(call) == call.pc = "threw" /\ call.payload = NotJson

\* Tokens that are not three dot-separated segments.
NotThreeSegments == {TokOpaque, TokTwo, TokFour}
\* Three-segment tokens whose signature was made over other content.
TamperedTokens == {TokTampered, TokNull}
\* Three-segment tokens whose payload segment is not JSON.
UndecodablePayload == {TokBadBody}
\* Three-segment tokens whose header is not a JSON object.
BrokenHeader == {TokBadHead}
\* The key id each signed token names, its issuer claim and its expiry.
KidOfToken(t) == IF t = TokRotated THEN "k2" ELSE "k1"
IssOfToken(t) ==
  IF t = TokHttp THEN "http://a.dev"
  ELSE IF t = TokSlash THEN "https://a.dev/" ELSE "https://a.dev"
ExpOfToken(t) == IF t \in Tokens THEN 2 ELSE -1

ErrPrefix == "Clerk JWT verification failed: "

\* C1: with signature verification enabled, verifyToken returns claims only
\* for a three-segment token whose signature is valid, whose key id is in the
\* fetched key set, that has not expired when verification ends and whose
\* payload is a JSON object; a tampered signature, an unknown key id, a
\* passed expiry or a malformed payload ends in the wrapped Error and no
\* claims.
C1_VerifyReturnsOnlyValid ==
  /\ [](\A c \in Callers :
          (calls[c].mode = "verify" /\ Finished(calls[c])) =>
            LET t == calls[c].token
                bad == t \in NotThreeSegments \cup BrokenHeader \cup TamperedTokens
                               \cup UndecodablePayload
            IN /\ Succeeded(calls[c]) => (~bad /\ calls[c].payload.object)
               /\ bad => (Failed(calls[c]) /\ calls[c].errType = "Error"))
  /\ [][\A c \in Callers :
          LET t == calls'[c].token IN
          /\ (calls[c].pc # "verifying" /\ calls'[c].pc = "verifying") =>
               (local'.loaded /\ KidOfToken(t) \in local'.keys)
          /\ (/\ calls[c].pc \in {"idle", "awaitFetch"} /\ Finished(calls'[c])
              /\ calls'[c].mode = "verify"
              /\ local'.loaded /\ KidOfToken(t) \notin local'.keys) =>
               (Failed(calls'[c]) /\ calls'[c].errType = "Error")
          /\ (calls'[c].mode = "verify" /\ ~Succeeded(calls[c]) /\ Succeeded(calls'[c])) =>
               (calls[c].pc = "verifying" /\ now < ExpOfToken(t))
          /\ (calls[c].pc = "verifying" /\ Finished(calls'[c]) /\ now >= ExpOfToken(t)) =>
               (Failed(calls'[c]) /\ calls'[c].errType = "Error")]_vars

\* C1 witness: a correctly signed token was returned before its expiry and
\* rejected as expired after it, and a token naming a key id the key set
\* lacks was rejected.
C1_Witness ==
  /\ calls[1].token = TokGood /\ calls[1].pc = "returned" /\ calls[1].mode = "verify"
  /\ calls[2].token = TokGood /\ calls[2].pc = "threw"
  /\ calls[2].checks = {"sig", "iss", "exp"} /\ calls[2].err = ErrPrefix \o "JWTExpired"

\* C2: with signature verification enabled, a token whose issuer claim is not
\* string-equal to "https://" followed by the configured domain (a different
\* scheme or a trailing slash included) is rejected and yields no claims.
C2_IssuerMustEqual ==
  \A c \in Callers :
    (/\ calls[c].mode = "verify" /\ Finished(calls[c])
     /\ IssOfToken(calls[c].token) # "https://" \o config.domain)
      => Failed(calls[c])

\* C2 witness: a correctly signed, unexpired token is rejected at the issuer
\* check because its issuer carries a trailing slash the configured one lacks.
C2_Witness ==
  \E c \in Callers :
    /\ calls[c].token = TokSlash /\ config.domain = "a.dev"
    /\ calls[c].pc = "threw" /\ calls[c].checks = {"sig", "iss"}

\* C3: unless the configuration sets verifyJwt to false, no verifyToken call
\* takes the decode-only branch: no warning is written, and every call that
\* returns has passed the signature, issuer and expiry checks.
C3_DecodeOnlyWhenFalse ==
  config.verifyJwt # "false" =>
    /\ warnings = 0
    /\ \A c \in Callers :
         /\ calls[c].mode # "decode"
         /\ Succeeded(calls[c]) => calls[c].checks = {"sig", "iss", "exp"}

\* C3 witness: with verifyJwt left unset a call has returned claims.
C3_Witness ==
  /\ config.verifyJwt = U
  /\ \E c \in Callers : calls[c].pc = "returned" /\ calls[c].mode = "verify"

\* No fetch of the key set has settled yet: the cache is cold.
Cold == fetchesSettled = 0

\* C4 as claimed: one provider creates one key set, and once a key set is
\* cached no later call starts another fetch.
C4_NoFetchOnceCached ==
  [][/\ jwksCreated' <= 1
     /\ local.loaded => fetchCount' = fetchCount]_vars

\* C4, amended: one key-set object is created per provider; a fetch starts
\* only while none is in flight, and only when no fresh key set is cached or
\* the token's key id is missing from it after the cooldown; with a cold cache
\* the concurrent callers whose tokens pass the structure check all await the
\* one fetch, and when a fetch settles every caller awaiting it goes on with
\* that fetch's outcome.
C4_SingleFlight ==
  /\ [](/\ jwksCreated <= 1
        /\ (jwks = "null") = (jwksCreated = 0)
        /\ fetchCount = fetchesSettled + (IF pendingFetch THEN 1 ELSE 0)
        /\ \A c \in Callers : calls[c].pc = "awaitFetch" => pendingFetch
        /\ Cold => fetchCount =
             (IF \E c \in Callers : calls[c].pc = "awaitFetch" THEN 1 ELSE 0))
  /\ [][/\ fetchCount' # fetchCount =>
             /\ fetchCount' = fetchCount + 1
             /\ ~pendingFetch
             /\ \/ ~local.loaded
                \/ ~Fresh
                \/ \E c \in Callers :
                     /\ calls[c].pc = "idle" /\ calls'[c].pc = "awaitFetch"
                     /\ calls'[c].kid \notin local.keys /\ ~CoolingDown
        /\ (pendingFetch /\ ~pendingFetch') =>
             LET waiting == {c \in Callers : calls[c].pc = "awaitFetch"} IN
             \/ /\ local'.loaded /\ jwksTimestamp' = now
                /\ \A c \in waiting :
                     IF calls[c].kid \in local'.keys
                     THEN calls'[c].pc = "verifying"
                     ELSE Failed(calls'[c]) /\ calls'[c].err = ErrPrefix \o "JWKSNoMatchingKey"
             \/ /\ local' = local /\ jwksTimestamp' = jwksTimestamp
                /\ \E why \in FetchFailures : \A c \in waiting :
                     Failed(calls'[c]) /\ calls'[c].err = ErrPrefix \o why]_vars

\* C4 witness: two callers started on a cold cache and both await the one
\* fetch that was started.
C4_Witness ==
  /\ Cold /\ fetchCount = 1 /\ jwksCreated = 1 /\ pendingFetch
  /\ calls[1].pc = "awaitFetch" /\ calls[2].pc = "awaitFetch"

\* C5: with verifyJwt false, a token of exactly three segments whose payload
\* segment decodes to JSON is returned with that payload, no key set is
\* created or fetched, and every such call writes the warning again.
C5_DisabledDecodes ==
  config.verifyJwt = "false" =>
    /\ jwks = "null" /\ jwksCreated = 0 /\ fetchCount = 0 /\ ~pendingFetch
    /\ warnings = 2 * Cardinality({c \in Callers : calls[c].pc # "idle"})
    /\ \A c \in Callers :
         (/\ calls[c].pc # "idle"
          /\ calls[c].token \notin NotThreeSegments \cup UndecodablePayload)
           => /\ Succeeded(calls[c])
              /\ calls[c].payload = JSONParse(B64UrlDecode(Split(calls[c].token)[2]))
              /\ calls[c].payload.ok

\* C5 witness: two decode-only calls have returned and four warning lines
\* were written.
C5_Witness ==
  /\ config.verifyJwt = "false" /\ warnings = 4
  /\ calls[1].pc = "returned" /\ calls[2].pc = "returned"
  /\ calls[1].payload.claims.sub = "user_1"

\* C6: with verifyJwt false, a token that is not exactly three segments, or
\* whose payload segment is not JSON, makes verifyToken throw and yields no
\* claims.
C6_DisabledStillChecksShape ==
  \A c \in Callers :
    (/\ calls[c].mode = "decode"
     /\ calls[c].token \in NotThreeSegments \cup UndecodablePayload)
      => Failed(calls[c])

\* C6 witness: a four-segment token and a token with an undecodable payload
\* were both refused in the decode-only branch.
C6_Witness ==
  \E c, d \in Callers :
    /\ calls[c].mode = "decode" /\ calls[c].token = TokFour
    /\ calls[c].err = "Invalid JWT format"
    /\ calls[d].mode = "decode" /\ calls[d].token = TokBadBody
    /\ calls[d].errType = "SyntaxError"

\* C7: whenever verifyToken has succeeded and getUserInfo has normalized its
\* payload, the identity record carries a user id.
C7_UserIdPopulated ==
  \A c \in Callers :
    /\ calls[c].pc # "normalizeThrew"
    /\ calls[c].pc = "normalized" => calls[c].user.userId # U

(***************************************************************************)
(* getUserInfo called directly on a claim set.                             *)
(***************************************************************************)
ListClaims(name) == {NoList, List(<<>>), List(<<name>>)}

\* Claim sets in which every optional claim is missing, empty or present.
ClaimSets ==
  [iss : {U}, exp : {-1}, sub : {U, "user_2"}, email : {U, "a@b.com"},
   email_verified : {U}, first_name : {U, "", "Jane"}, last_name : {U, "", "Doe"},
   image_url : {U, "https://img/1"}, picture : {U, "https://pic/1"},
   org_id : {U, "org_9"}, org_role : {U, "", "admin"},
   org_permissions : ListClaims("read"), roles : ListClaims("user"),
   permissions : ListClaims("write")]

UserInfoInit ==
  /\ ProviderInit({[domain |-> "a.dev", verifyJwt |-> "true"]})
  /\ rawClaims \in ClaimSets
  /\ userInfo = NotCalled
  /\ HandlerIdle

\* getUserInfo(payload): orgPermissions.length is read, which throws a
\* TypeError if orgPermissions is undefined.
GetUserInfoCall ==
  /\ userInfo.pc = "notCalled"
  /\ userInfo' =
       IF ~OrgPermissionsOf(rawClaims).def
       THEN [pc |-> "threw", errType |-> "TypeError", value |-> NoUser]
       ELSE [pc |-> "returned", errType |-> U, value |-> GetUserInfo(rawClaims)]
  /\ UNCHANGED <<providerVars, jwksVars, now, calls, warnings, rawClaims, handlerVars>>

UserInfoNext == GetUserInfoCall

SpecUserInfo == UserInfoInit /\ [][UserInfoNext]_vars

\* C8: getUserInfo returns for every claim set; an optional claim that is
\* missing is absent from the record, and roles, permissions and
\* org_permissions are always lists, empty when no claim supplies them.
C8_GetUserInfoTotal ==
  userInfo.pc # "notCalled" =>
    LET r == userInfo.value IN
    /\ userInfo.pc = "returned"
    /\ r.roles.def /\ r.permissions.def /\ r.org_permissions.def
    /\ rawClaims.email = U => r.email = U
    /\ rawClaims.org_id = U => r.org_id = U
    /\ rawClaims.org_role = U => r.org_role = U
    /\ (rawClaims.first_name = U /\ rawClaims.last_name = U) => r.name = U
    /\ (rawClaims.image_url = U /\ rawClaims.picture = U) => r.picture = U
    /\ (rawClaims.org_role = U /\ ~rawClaims.roles.def) => r.roles.v = <<>>
    /\ (~rawClaims.org_permissions.def /\ ~rawClaims.permissions.def) =>
         r.permissions.v = <<>>
    /\ ~rawClaims.org_permissions.def => r.org_permissions.v = <<>>

\* C8 witness: a claim set holding nothing but sub was normalized.
C8_Witness ==
  /\ rawClaims = [NoClaims EXCEPT !.sub = "user_2"]
  /\ userInfo.pc = "returned" /\ userInfo.value.userId = "user_2"
  /\ userInfo.value.roles = List(<<>>) /\ userInfo.value.permissions = List(<<>>)

\* C9 as claimed: whenever an organization-scoped claim is present it alone
\* determines the list, whatever the generic claim holds.
C9_OrgClaimsWhenPresent ==
  userInfo.pc = "returned" =>
    /\ rawClaims.org_permissions.def =>
         userInfo.value.permissions = rawClaims.org_permissions
    /\ rawClaims.org_role # U => userInfo.value.roles = List(<<rawClaims.org_role>>)

\* C9, amended: roles is the one-element list of org_role when org_role is a
\* non-empty string and otherwise the generic roles claim (or the empty list);
\* permissions is org_permissions when that list is non-empty and otherwise
\* the generic permissions claim (or the empty list). A non-empty
\* organization-scoped claim wins over a generic one; an empty one does not.
C9_OrgClaimsWhenNonEmpty ==
  userInfo.pc = "returned" =>
    LET r == userInfo.value
        orgRole == rawClaims.org_role
        orgPerms == rawClaims.org_permissions
    IN /\ (orgRole # U /\ orgRole # "") => r.roles = List(<<orgRole>>)
       /\ (orgRole = U \/ orgRole = "") =>
            r.roles = (IF rawClaims.roles.def THEN rawClaims.roles ELSE List(<<>>))
       /\ (orgPerms.def /\ orgPerms.v # <<>>) => r.permissions = orgPerms
       /\ (~orgPerms.def \/ orgPerms.v = <<>>) =>
            r.permissions =
              (IF rawClaims.permissions.def THEN rawClaims.permissions ELSE List(<<>>))

\* C9 witness: both kinds of claim are present and non-empty, and the record
\* carries the organization-scoped ones.
C9_Witness ==
  /\ rawClaims.org_role = "admin" /\ rawClaims.roles = List(<<"user">>)
  /\ rawClaims.org_permissions = List(<<"read">>)
  /\ rawClaims.permissions = List(<<"write">>)
  /\ userInfo.pc = "returned"
  /\ userInfo.value.roles = List(<<"admin">>)
  /\ userInfo.value.permissions = List(<<"read">>)

(***************************************************************************)
(* The get-clerk-user-profile tool handler.                                *)
(***************************************************************************)
TokOpaqueOther == <<"tok_", "abc">>
TokOatDotted   == <<"oat_", "a", Dot, "b", Dot, "c">>
SecretKey      == <<"sk_test_", "1">>

HandlerTokens == {TokOpaque, TokOpaqueOther, TokOatDotted, TokGood}
Hints == {U, "userinfo", "admin"}

\* !value for an environment string.
Unset(v) == v = U \/ v = ""

IsNotThreeSegments(token) == Len(Split(token)) # 3

\* token.startsWith("oat_"): the prefix is a character run of its own.
StartsWithOat(token) == Len(token) >= 1 /\ token[1] = "oat_"

Request(url, credential) == [url |-> url, authorization |-> <<"Bearer", credential>>]

\* error(text) and object(value) of mcp-use/server.
ErrorResult(text) == [kind |-> "error", message |-> text, profile |-> NoClaims]
ObjectResult(profile) == [kind |-> "object", message |-> U, profile |-> profile]

\* new Date(ms).toISOString()
ToISOString(ms) ==
  CASE ms = 86400000 -> "1970-01-02T00:00:00.000Z"
    [] OTHER -> "1970-01-01T00:00:00.000Z"

\* A Backend API user with nothing set.
NoAdminUser ==
  [id |-> U, email_addresses |-> <<>>, first_name |-> U, last_name |-> U,
   username |-> U, image_url |-> U, created_at |-> 0, last_sign_in_at |-> 0,
   public_metadata |-> U]

\* The object the handler builds from the Backend API user.
AdminProfile(user) ==
  [id |-> user.id,
   email |-> IF Len(user.email_addresses) > 0
             THEN user.email_addresses[1].email_address ELSE U,
   email_verified |-> /\ Len(user.email_addresses) > 0
                      /\ user.email_addresses[1].verification_status = "verified",
   first_name |-> user.first_name,
   last_name |-> user.last_name,
   name |-> FullName(user.first_name, user.last_name),
   username |-> user.username,
   picture |-> user.image_url,
   created_at |-> IF user.created_at # 0 THEN ToISOString(user.created_at) ELSE U,
   last_sign_in |-> IF user.last_sign_in_at # 0 THEN ToISOString(user.last_sign_in_at) ELSE U,
   public_metadata |-> user.public_metadata]

ProfileInit ==
  /\ ProviderInit({[domain |-> "a.dev", verifyJwt |-> "true"]})
  /\ rawClaims = NoClaims
  /\ userInfo = NotCalled
  /\ env \in [domain : {U, "", "a.dev"}, secretKey : {<<>>, SecretKey}]
  /\ ctx \in [accessToken : HandlerTokens, userId : {U, "user_1"}]
  /\ args \in Hints
  /\ hpc = "ready"
  /\ requests = <<>>
  /\ res = NoResponse
  /\ result = NoResult

\* fetch(`https://${domain}/oauth/userinfo`, { headers: { Authorization:
\* `Bearer ${token}` } })
UserinfoRequest ==
  Request("https://" \o env.domain \o "/oauth/userinfo", ctx.accessToken)

AdminRequestWithUserToken ==
  Request("https://api.clerk.com/v1/users/" \o ctx.userId, ctx.accessToken)

\* fetch(`https://api.clerk.com/v1/users/${userId}`, { headers: {
\* Authorization: `Bearer ${secretKey}` } })
AdminRequest ==
  Request("https://api.clerk.com/v1/users/" \o ctx.userId, env.secretKey)

SecretKeyNeverMissing == FALSE

\* !secretKey
SecretKeyMissing == env.secretKey = <<>>

SecretKeyNotSet ==
  "CLERK_SECRET_KEY is not set. Add it to .env to fetch full user profiles in Inspector/browser flows. "
    \o "Real MCP clients (Cursor, Claude Code) receive oat_ tokens which work without a secret key."

\* The handler up to its first await or return.
ProfileStart ==
  /\ hpc = "ready"
  /\ IF Unset(env.domain)
     THEN /\ result' = ErrorResult("MCP_USE_OAUTH_CLERK_DOMAIN is not set")
          /\ hpc' = "done"
          /\ UNCHANGED requests
     ELSE IF StartsWithOat(ctx.accessToken)
     THEN /\ requests' = Append(requests, UserinfoRequest)
          /\ hpc' = "awaitUserinfo"
          /\ UNCHANGED result
     ELSE IF SecretKeyMissing
     THEN /\ result' = ErrorResult(SecretKeyNotSet)
          /\ hpc' = "done"
          /\ UNCHANGED requests
     ELSE /\ requests' = Append(requests, AdminRequest)
          /\ hpc' = "awaitAdmin"
          /\ UNCHANGED result
  /\ UNCHANGED <<providerVars, jwksVars, now, calls, warnings, normalizerVars,
                 env, ctx, args, res>>

\* What the remote end can answer.
Statuses ==
  {[code |-> 200, text |-> "OK"], [code |-> 401, text |-> "Unauthorized"],
   [code |-> 500, text |-> "Internal Server Error"]}
\* Response bodies: valid is FALSE for a body res.json() cannot parse.
UserinfoBodies ==
  {[valid |-> FALSE, user |-> NoClaims],
   [valid |-> TRUE, user |-> [NoClaims EXCEPT !.sub = "user_1", !.email = "a@b.com"]]}
AdminBodies ==
  {[valid |-> FALSE, user |-> NoAdminUser],
   [valid |-> TRUE, user |-> [NoAdminUser EXCEPT !.id = "user_1"]],
   [valid |-> TRUE,
    user |-> [NoAdminUser EXCEPT
                !.id = "user_1", !.first_name = "Jane", !.last_name = "Doe",
                !.email_addresses =
                  << [email_address |-> "a@b.com", verification_status |-> "verified"] >>,
                !.image_url = "https://img/1", !.created_at = 86400000]]}

OkAlways(status) == TRUE

\* res.ok
Ok(status) == status.code >= 200 /\ status.code <= 299

\* The userinfo response arrives: error on a non-2xx status, else the body
\* read by res.json() is returned as it is; a body that is not JSON makes
\* res.json() reject, which the catch turns into an error result.
UserinfoResponds(status, body) ==
  /\ hpc = "awaitUserinfo"
  /\ hpc' = "done"
  /\ res' = [kind |-> "response", status |-> status, valid |-> body.valid]
  /\ result' =
       IF ~Ok(status)
       THEN ErrorResult("Clerk userinfo failed: " \o ToString(status.code) \o " " \o status.text)
       ELSE IF ~body.valid
       THEN ErrorResult("Failed to fetch Clerk user profile: SyntaxError")
       ELSE ObjectResult(body.user)
  /\ UNCHANGED <<providerVars, jwksVars, now, calls, warnings, normalizerVars,
                 env, ctx, args, requests>>

AdminResponds(status, body) ==
  /\ hpc = "awaitAdmin"
  /\ hpc' = "done"
  /\ res' = [kind |-> "response", status |-> status, valid |-> body.valid]
  /\ result' =
       IF ~Ok(status)
       THEN ErrorResult("Clerk API request failed: " \o ToString(status.code) \o " " \o status.text)
       ELSE IF ~body.valid
       THEN ErrorResult("Failed to fetch Clerk user profile: SyntaxError")
       ELSE ObjectResult(AdminProfile(body.user))
  /\ UNCHANGED <<providerVars, jwksVars, now, calls, warnings, normalizerVars,
                 env, ctx, args, requests>>

\* fetch itself rejects (no connection): the catch returns an error result.
FetchRejects ==
  /\ hpc \in {"awaitUserinfo", "awaitAdmin"}
  /\ hpc' = "done"
  /\ res' = [NoResponse EXCEPT !.kind = "rejected"]
  /\ result' = ErrorResult("Failed to fetch Clerk user profile: TypeError: fetch failed")
  /\ UNCHANGED <<providerVars, jwksVars, now, calls, warnings, normalizerVars,
                 env, ctx, args, requests>>

ProfileNext ==
  \/ ProfileStart
  \/ \E status \in Statuses, body \in UserinfoBodies : UserinfoResponds(status, body)
  \/ \E status \in Statuses, body \in AdminBodies : AdminResponds(status, body)
  \/ FetchRejects

SpecProfile == ProfileInit /\ [][ProfileNext]_vars

\* The handler is scheduled and every fetch it awaits settles, with a
\* response or a rejection.
SpecProfileFair == SpecProfile /\ WF_vars(ProfileNext)

UserinfoUrl == "https://a.dev/oauth/userinfo"
AdminUrlPrefix == "https://api.clerk.com/v1/users/"
\* The presented tokens that begin with oat_, and those of three segments.
OatTokens == {TokOpaque, TokOatDotted}
ThreeSegmentTokens == {TokOatDotted, TokGood}

Credential(request) == request.authorization[2]
ToUserinfo(request) == request.url = "https://" \o env.domain \o "/oauth/userinfo"
ToAdmin(request) == request.url = AdminUrlPrefix \o ctx.userId

\* C11: every request the handler sends goes to the userinfo endpoint with
\* the end user's token or to the administrative lookup with the secret key;
\* the user's token is never on an administrative request and the secret key
\* never on a userinfo request.
C11_CredentialPerPath ==
  \A i \in 1..Len(requests) :
    LET r == requests[i] IN
    /\ r.authorization[1] = "Bearer"
    /\ ToUserinfo(r) \/ ToAdmin(r)
    /\ ToAdmin(r) => (Credential(r) = env.secretKey /\ Credential(r) # ctx.accessToken)
    /\ ToUserinfo(r) => (Credential(r) = ctx.accessToken /\ Credential(r) # env.secretKey)
    /\ Credential(r) = ctx.accessToken => ToUserinfo(r)
    /\ Credential(r) = env.secretKey => ToAdmin(r)

\* C11 witness: an invocation holding the user's session token sent the
\* secret key, and not that token, to the administrative lookup and returned
\* the profile.
C11_Witness ==
  /\ ctx.accessToken = TokGood /\ hpc = "done" /\ result.kind = "object"
  /\ requests = << [url |-> AdminUrlPrefix \o "user_1",
                    authorization |-> <<"Bearer", SecretKey>>] >>

\* C12: when the administrative lookup is the path taken (the domain is set
\* and the token does not start with oat_) and the secret key is not
\* configured, the invocation ends at once with the error naming
\* CLERK_SECRET_KEY and sends no request.
C12_NoSecretNoCall ==
  (/\ hpc \notin {"notCalled", "ready"}
   /\ ~Unset(env.domain) /\ ctx.accessToken \notin OatTokens
   /\ env.secretKey = <<>>)
    => /\ hpc = "done"
       /\ requests = <<>>
       /\ result.kind = "error"
       /\ result.message = SecretKeyNotSet
       /\ result.profile = NoClaims

\* C12 witness: a session token was presented with the domain set and no
\* secret key, and the handler has returned its error.
C12_Witness ==
  /\ ctx.accessToken = TokGood /\ env.domain = "a.dev" /\ env.secretKey = <<>>
  /\ hpc = "done" /\ result.kind = "error" /\ requests = <<>>

\* What the result is for each way the awaited fetch can settle.
UpstreamFailureIsErrorResult ==
  LET userinfo == ctx.accessToken \in OatTokens
      failed == IF userinfo THEN "Clerk userinfo failed: "
                ELSE "Clerk API request failed: "
  IN
  /\ hpc = "done" => result.kind \in {"error", "object"}
  /\ hpc # "done" => (result = NoResult /\ res = NoResponse)
  /\ (res.kind = "response" /\ res.status.code \notin 200..299) =>
       /\ result.kind = "error"
       /\ result.message =
            failed \o ToString(res.status.code) \o " " \o res.status.text
       /\ result.profile = NoClaims
  /\ res.kind = "rejected" =>
       /\ result.kind = "error"
       /\ result.message = "Failed to fetch Clerk user profile: TypeError: fetch failed"
       /\ result.profile = NoClaims
  /\ result.kind = "object" =>
       (res.kind = "response" /\ res.status.code \in 200..299 /\ res.valid)

\* C13: when the awaited endpoint answers with a status outside 200..299
\* the handler returns an error result whose message holds the status code
\* and status text; when the fetch itself fails it returns an error result
\* holding the failure; an object result is returned only for a 2xx answer
\* with a readable body; and every invocation finishes, having returned one of
\* the two.
C13_UpstreamFailureHandled ==
  []UpstreamFailureIsErrorResult /\ <>(hpc = "done")

\* C13 witness: the userinfo endpoint answered 401 and the handler returned
\* the error naming that status.
C13_Witness ==
  /\ ctx.accessToken = TokOpaque /\ hpc = "done"
  /\ res.kind = "response" /\ res.status.code = 401
  /\ result = ErrorResult("Clerk userinfo failed: 401 Unauthorized")

\* A step in which the pending fetch of jwks.json ends in failure: it
\* settles and leaves the cached key set and its timestamp as they were.
KeyFetchFailed ==
  /\ pendingFetch /\ ~pendingFetch'
  /\ local' = local /\ jwksTimestamp' = jwksTimestamp

\* The kind of error thrown for a token rejected at the signature check.
RejectedKind(call) == Rejected(call, "JWSSignatureVerificationFailed").errType

\* C14: when the key-set fetch fails, every invocation awaiting it throws,
\* returns no claims, and throws an error of a kind other than the one thrown
\* for a rejected token.
C14_FetchFailureIsTransient ==
  [][KeyFetchFailed =>
       \A c \in Callers :
         calls[c].pc = "awaitFetch" =>
           /\ Failed(calls'[c])
           /\ calls'[c].errType # RejectedKind(calls[c])]_vars

====
